---------------------------- MODULE Spec2Model ----------------------------
(***************************************************************************)
(* ssim-video-optimizer: the sample selection (sampling.py), the QP binary *)
(* search (ssim_search.py) and the run of the command line tool with its   *)
(* full-file verification loop (cli.py, encoder.py).                       *)
(*                                                                         *)
(* SSIM scores are opaque numbers returned by ffmpeg; they are integers    *)
(* here (a score in hundredths), compared with the target by >= exactly as *)
(* the code compares them.  Timestamps are exact rationals, kept as        *)
(* integer numerators over the common denominator Denominator(count).      *)
(***************************************************************************)
EXTENDS Integers, Sequences, FiniteSets, TLC

VARIABLES
    \* ---- cli.main(): one run of the tool
    pc,           \* position in main()
    input_exists, \* os.path.isfile(args.input)
    ext,          \* extension of args.input
    min_qp,       \* args.min_qp
    max_qp,       \* args.max_qp
    target,       \* args.ssim (target_ssim in find_best_qp)
    invoked,      \* kinds of external collaborator calls made so far
    workspaces,   \* temporary directories that exist (tempfile.mkdtemp)
    samples,      \* number of sample clips extract_samples returned
    best_qp,      \* result of find_best_qp in main()
    final_qp,     \* main(): QP of the verification loop
    prev_file,    \* main(): <<>> for None, <<q>> for the rendition at QP q
    final_file,   \* main(): <<>> while unset, <<q>> for the rendition at QP q
    staged,       \* QPs whose full-file rendition exists in the staging dir
    encLog,       \* full-file encodes so far: [qp, scored, ssim]
    warned,       \* logging.warning("Could not meet SSIM target ...") was run
    dest,         \* <<>> or <<[name_qp, enc_qp]>>: the delivered artifact
    exc,          \* an exception is propagating / has ended the run
    exit_code,    \* process exit status once pc = "done", -1 before
    \* ---- find_best_qp(): one invocation, step by step
    spc,          \* position in find_best_qp
    ssim,         \* the evaluator: measure_ssim's result per QP
    low, high, best,
    evals,        \* QPs measure_ssim was called with, in order
    \* ---- select_sample_times(): one call
    sel_pc,
    sel_in,       \* [mode, duration, percent, count, detected]
    sel_out       \* the returned list of timestamps

runVars == <<pc, input_exists, ext, invoked, workspaces, samples, best_qp,
             final_qp, prev_file, final_file, staged, encLog, warned, dest,
             exc, exit_code>>
argVars == <<min_qp, max_qp, target>>
searchVars == <<spc, ssim, low, high, best, evals>>
selVars == <<sel_pc, sel_in, sel_out>>
vars == <<runVars, argVars, searchVars, selVars>>

-----------------------------------------------------------------------------
(* Bounds of the model *)
MaxQP == 4
MaxScore == 2

QPs == 0..MaxQP
Scores == 0..MaxScore
Targets == 1..MaxScore

-----------------------------------------------------------------------------
(* ssim_search.py *)

\* measure_ssim(qp, ...): the aggregated sample score the evaluator f gives.
measure_ssim(f, qp) == f[qp]

MeetsTarget(score, t) == score >= t

\* find_best_qp lines 43-46: low, high = min_qp, max_qp and the initial probe.
SearchStart(f, lo, hi, t) ==
    [low   |-> lo,
     high  |-> hi,
     best  |-> IF MeetsTarget(measure_ssim(f, hi), t) THEN hi ELSE lo,
     evals |-> <<hi>>]

\* find_best_qp line 49: the loop condition.
SearchContinues(st) == st.high - st.low > 1

\* A search that lowers high one QP at a time instead of halving the range.
SearchStepLinear(f, t, st) ==
    LET mid == (st.low + st.high) \div 2
    IN  IF MeetsTarget(measure_ssim(f, mid), t)
        THEN [st EXCEPT !.best = mid, !.low = mid, !.evals = Append(@, mid)]
        ELSE [st EXCEPT !.high = @ - 1, !.evals = Append(@, mid)]

\* find_best_qp lines 50-54: one iteration of the bisection loop.
SearchStep(f, t, st) ==
    LET mid == (st.low + st.high) \div 2
    IN  IF MeetsTarget(measure_ssim(f, mid), t)
        THEN [st EXCEPT !.best = mid, !.low = mid, !.evals = Append(@, mid)]
        ELSE [st EXCEPT !.high = mid, !.evals = Append(@, mid)]

RECURSIVE SearchLoop(_, _, _)
SearchLoop(f, t, st) ==
    IF SearchContinues(st) THEN SearchLoop(f, t, SearchStep(f, t, st)) ELSE st

\* find_best_qp as a whole: the state of the search when it returns best.
find_best_qp(f, lo, hi, t) == SearchLoop(f, t, SearchStart(f, lo, hi, t))

SearchState == [low |-> low, high |-> high, best |-> best, evals |-> evals]

SetSearchState(st) ==
    /\ low' = st.low
    /\ high' = st.high
    /\ best' = st.best
    /\ evals' = st.evals

\* The call: lines 43-46.
SearchBegin ==
    /\ spc = "call"
    /\ SetSearchState(SearchStart(ssim, min_qp, max_qp, target))
    /\ spc' = "loop"
    /\ UNCHANGED <<ssim, argVars, runVars, selVars>>

\* One pass of the while loop: lines 49-54.
SearchIterate ==
    /\ spc = "loop"
    /\ SearchContinues(SearchState)
    /\ SetSearchState(SearchStep(ssim, target, SearchState))
    /\ UNCHANGED <<spc, ssim, argVars, runVars, selVars>>

\* Loop exit and return best: line 56.
SearchReturn ==
    /\ spc = "loop"
    /\ ~SearchContinues(SearchState)
    /\ spc' = "returned"
    /\ UNCHANGED <<ssim, low, high, best, evals, argVars, runVars, selVars>>

-----------------------------------------------------------------------------
(* sampling.py: select_sample_times *)

MaxDuration == 4
MaxCount == 3
MaxDet == 3
MaxT == 3

Modes == {"uniform", "scene", "motion"}
Durations == 1..MaxDuration
Percents == {15, 50, 60, 100}
Counts == 1..MaxCount

RECURSIVE SeqsUpTo(_, _)
SeqsUpTo(S, n) ==
    IF n = 0 THEN {<<>>}
    ELSE LET shorter == SeqsUpTo(S, n - 1)
         IN  shorter \cup {Append(s, x) : s \in {q \in shorter : Len(q) = n - 1}, x \in S}

\* What detect_scenes / detect_motion may return: any list of timestamps
\* (whole seconds here), in any order, repeats included (a frame without a
\* timestamp is reported at 0.0).
Detections == SeqsUpTo(0..MaxT, MaxDet)

Max(a, b) == IF a >= b THEN a ELSE b
Abs(a) == IF a >= 0 THEN a ELSE -a

\* Timestamps and lengths are rationals n / Denominator(count); every
\* quantity of one call is kept as its numerator n.
Denominator(count) == 100 * count * Max(count - 1, 1)
Seconds(t, count) == t * Denominator(count)

\* line 84: step = max((duration - span) / max(count - 1, 1), 0), with
\* span = duration * percent / 100.0 (line 83).
UniformStep(duration, percent, count) ==
    Max((100 * duration - duration * percent) * count, 0)

\* line 85: times = [i * step for i in range(count)]
UniformTimes(duration, percent, count) ==
    [i \in 1..count |-> (i - 1) * UniformStep(duration, percent, count)]

\* line 87 (and extract_samples line 98): duration * percent / 100.0 / count
ClipLen(duration, percent, count) == duration * percent * Max(count - 1, 1)

\* A selector without the fallback: uniform only when asked for.
UsesUniformOnlyOnRequest(mode, times) == mode = "uniform"

\* line 82: the uniform algorithm is used in mode uniform and when the
\* detector returned nothing.
UsesUniform(mode, times) == mode = "uniform" \/ times = <<>>

\* lines 76-85: the candidate timestamps.
Candidates(mode, duration, percent, count, detected) ==
    LET times == IF mode \in {"scene", "motion"}
                 THEN [i \in 1..Len(detected) |-> Seconds(detected[i], count)]
                 ELSE <<>>
    IN  IF UsesUniform(mode, times)
        THEN UniformTimes(duration, percent, count)
        ELSE times

\* line 90: all(abs(t - prev) >= clip_len for prev in filtered)
FarFromAll(t, filtered, clip_len) ==
    \A k \in 1..Len(filtered) : Abs(t - filtered[k]) >= clip_len

\* lines 88-93: the spacing filter, from candidate i on.
RECURSIVE SpacingFilter(_, _, _, _, _)
SpacingFilter(times, i, filtered, clip_len, count) ==
    IF i > Len(times) THEN filtered
    ELSE IF FarFromAll(times[i], filtered, clip_len)
         THEN LET kept == Append(filtered, times[i])
              IN  IF Len(kept) = count THEN kept
                  ELSE SpacingFilter(times, i + 1, kept, clip_len, count)
         ELSE SpacingFilter(times, i + 1, filtered, clip_len, count)

Take(s, n) == SubSeq(s, 1, IF Len(s) < n THEN Len(s) ELSE n)

\* line 94: return (filtered + times)[:count]
TopUp(filtered, times, count) == Take(filtered \o times, count)

\* select_sample_times; clip_len is <<>> for None, <<c>> otherwise.
select_sample_times(mode, duration, percent, count, detected, clip_len) ==
    LET times == Candidates(mode, duration, percent, count, detected)
        clip  == IF clip_len = <<>> THEN ClipLen(duration, percent, count)
                 ELSE clip_len[1]
        filtered == SpacingFilter(times, 1, <<>>, clip, count)
    IN  TopUp(filtered, times, count)

\* A call with the inputs in: clip_len is passed as extract_samples passes
\* it (lines 97-99) when in.clip_given, and left to its default otherwise.
SelectedTimes(in) ==
    select_sample_times(in.mode, in.duration, in.percent, in.count, in.detected,
                        IF in.clip_given
                        THEN <<ClipLen(in.duration, in.percent, in.count)>>
                        ELSE <<>>)

SelectCall ==
    /\ sel_pc = "call"
    /\ sel_out' = SelectedTimes(sel_in)
    /\ sel_pc' = "returned"
    /\ UNCHANGED <<sel_in, argVars, runVars, searchVars>>

-----------------------------------------------------------------------------
(* Values of the variables a specification does not use *)

RunIdle ==
    /\ pc = "idle"
    /\ input_exists = TRUE
    /\ ext = "mkv"
    /\ invoked = {}
    /\ workspaces = {}
    /\ samples = 0
    /\ best_qp = 0
    /\ final_qp = 0
    /\ prev_file = <<>>
    /\ final_file = <<>>
    /\ staged = {}
    /\ encLog = <<>>
    /\ warned = FALSE
    /\ dest = <<>>
    /\ exc = FALSE
    /\ exit_code = -1

SearchIdle ==
    /\ spc = "idle"
    /\ ssim = <<>>
    /\ low = 0
    /\ high = 0
    /\ best = 0
    /\ evals = <<>>

SelectIdle ==
    /\ sel_pc = "idle"
    /\ sel_in = [mode |-> "uniform", duration |-> 1, percent |-> 100,
                 count |-> 1, detected |-> <<>>, clip_given |-> TRUE]
    /\ sel_out = <<>>

-----------------------------------------------------------------------------
(* find_best_qp on its own: every evaluator over every range min_qp..max_qp *)

\* The mock evaluator score(qp) = 1 - 0.01 * qp, in hundredths.
ExampleSearch ==
    [min_qp |-> 10, max_qp |-> 40, target |-> 80,
     ssim |-> [q \in 10..40 |-> 100 - q]]

InitSearch ==
    /\ \/ /\ min_qp \in QPs
          /\ max_qp \in QPs
          /\ min_qp <= max_qp
          /\ target \in Targets
          /\ ssim \in [min_qp..max_qp -> Scores]
       \/ /\ min_qp = ExampleSearch.min_qp
          /\ max_qp = ExampleSearch.max_qp
          /\ target = ExampleSearch.target
          /\ ssim = ExampleSearch.ssim
    /\ spc = "call"
    /\ low = 0
    /\ high = 0
    /\ best = 0
    /\ evals = <<>>
    /\ RunIdle
    /\ SelectIdle

NextSearch == SearchBegin \/ SearchIterate \/ SearchReturn

SpecSearch == InitSearch /\ [][NextSearch]_vars

-----------------------------------------------------------------------------
(* select_sample_times on its own *)

InitSelect ==
    /\ sel_pc = "call"
    /\ sel_in \in [mode : Modes, duration : Durations, percent : Percents,
                   count : Counts, detected : Detections,
                   clip_given : BOOLEAN]
    /\ sel_in.mode = "uniform" => sel_in.detected = <<>>
    /\ sel_out = <<>>
    /\ min_qp = 0
    /\ max_qp = 0
    /\ target = 0
    /\ RunIdle
    /\ SearchIdle

NextSelect == SelectCall

SpecSelect == InitSelect /\ [][NextSelect]_vars

-----------------------------------------------------------------------------
(* cli.py: main(), one run of the tool *)

\* The container extensions of the paths tried; the first three are the ones
\* src/ssim-video-optimizer.py accepts (line 259), cli.py accepts any.
Exts == {"mkv", "mp4", "mov", "avi"}
SupportedExts == {"mkv", "mp4", "mov"}

\* Detector outputs tried in a run: one list of each length (the run only
\* depends on how many clips are cut).
RunDetections == {[i \in 1..n |-> i - 1] : n \in 0..MaxDet}

\* An uncaught exception before the try block of main(): traceback, status 1.
Crash ==
    /\ exc' = TRUE
    /\ pc' = "done"
    /\ exit_code' = 1

\* lines 45-47: if not os.path.isfile(args.input): log the error and return.
\* main() returns None, which the console script turns into exit status 0.
CheckInput ==
    /\ pc = "start"
    /\ IF ~input_exists
       THEN /\ pc' = "done"
            /\ exit_code' = 0
       ELSE /\ pc' = "probe"
            /\ exit_code' = exit_code
    /\ UNCHANGED <<input_exists, ext, invoked, workspaces, samples, best_qp,
                   final_qp, prev_file, final_file, staged, encLog, warned,
                   dest, exc, argVars, searchVars, selVars>>

\* lines 50-52: probe_audio_streams, build_audio_options, probe_video_framerate.
Probe ==
    /\ pc = "probe"
    /\ invoked' = invoked \cup {"probe"}
    /\ pc' = "extract"
    /\ UNCHANGED <<input_exists, ext, workspaces, samples, best_qp, final_qp,
                   prev_file, final_file, staged, encLog, warned, dest, exc,
                   exit_code, argVars, searchVars, selVars>>

\* run_cmd(check=True) raises when ffprobe fails.
ProbeFails ==
    /\ pc = "probe"
    /\ invoked' = invoked \cup {"probe"}
    /\ Crash
    /\ UNCHANGED <<input_exists, ext, workspaces, samples, best_qp, final_qp,
                   prev_file, final_file, staged, encLog, warned, dest,
                   argVars, searchVars, selVars>>

\* make_safe_symlink (sampling.py lines 11-22) is called by both detectors.
DetectorWorkspaces(mode) ==
    IF mode \in {"scene", "motion"} THEN {"ssim_safe"} ELSE {}

DetectorCalls(mode) ==
    IF mode \in {"scene", "motion"} THEN {"detect"} ELSE {}

\* lines 55-63, sampling.extract_samples lines 96-113: all clips are cut and
\* re-encoded into a fresh ssim_sample_ directory.
ExtractSamples ==
    /\ pc = "extract"
    /\ \E in \in [mode : Modes, duration : {MaxDuration}, percent : Percents,
                  count : Counts, detected : RunDetections,
                  clip_given : {TRUE}] :
          /\ in.mode = "uniform" => in.detected = <<>>
          /\ samples' = Len(SelectedTimes(in))
          /\ workspaces' = workspaces \cup DetectorWorkspaces(in.mode)
                                      \cup {"ssim_sample"}
          /\ invoked' = invoked \cup {"probe"} \cup DetectorCalls(in.mode)
                                \cup (IF Len(SelectedTimes(in)) > 0
                                      THEN {"cut", "encode"} ELSE {})
    /\ pc' = "search"
    /\ UNCHANGED <<input_exists, ext, best_qp, final_qp, prev_file, final_file,
                   staged, encLog, warned, dest, exc, exit_code, argVars,
                   searchVars, selVars>>

\* probe_video_duration fails (sampling.py line 97 or 75): nothing was made.
ExtractProbeFails ==
    /\ pc = "extract"
    /\ invoked' = invoked \cup {"probe"}
    /\ Crash
    /\ UNCHANGED <<input_exists, ext, workspaces, samples, best_qp, final_qp,
                   prev_file, final_file, staged, encLog, warned, dest,
                   argVars, searchVars, selVars>>

\* The detector's ffprobe fails, after make_safe_symlink made its directory.
ExtractDetectFails ==
    /\ pc = "extract"
    /\ \E mode \in {"scene", "motion"} :
          /\ workspaces' = workspaces \cup DetectorWorkspaces(mode)
          /\ invoked' = invoked \cup {"probe"} \cup DetectorCalls(mode)
    /\ Crash
    /\ UNCHANGED <<input_exists, ext, samples, best_qp, final_qp, prev_file,
                   final_file, staged, encLog, warned, dest, argVars,
                   searchVars, selVars>>

\* The cut or the re-encode of a clip fails (sampling.py lines 105-111).
ExtractCutFails ==
    /\ pc = "extract"
    /\ \E mode \in Modes :
          /\ workspaces' = workspaces \cup DetectorWorkspaces(mode)
                                      \cup {"ssim_sample"}
          /\ invoked' = invoked \cup {"probe", "cut"} \cup DetectorCalls(mode)
    /\ Crash
    /\ UNCHANGED <<input_exists, ext, samples, best_qp, final_qp, prev_file,
                   final_file, staged, encLog, warned, dest, argVars,
                   searchVars, selVars>>

\* The QPs find_best_qp can call the evaluator with.
SearchDomain == (min_qp..max_qp) \cup {max_qp}

\* lines 66-78: gop and best_qp = find_best_qp(...), with any evaluator.
FindBestQp ==
    /\ pc = "search"
    /\ \E f \in [SearchDomain -> Scores] :
          best_qp' = find_best_qp(f, min_qp, max_qp, target).best
    /\ invoked' = invoked \cup {"encode", "score"}
    /\ pc' = "verify"
    /\ UNCHANGED <<input_exists, ext, workspaces, samples, final_qp, prev_file,
                   final_file, staged, encLog, warned, dest, exc, exit_code,
                   argVars, searchVars, selVars>>

\* An ffmpeg call of measure_ssim_on_sample fails.
FindBestQpFails ==
    /\ pc = "search"
    /\ invoked' = invoked \cup {"encode"}
    /\ Crash
    /\ UNCHANGED <<input_exists, ext, workspaces, samples, best_qp, final_qp,
                   prev_file, final_file, staged, encLog, warned, dest,
                   argVars, searchVars, selVars>>

\* lines 81-84: final_qp = best_qp, prev_file = None, tmpdir = mkdtemp(...).
VerifyBegin ==
    /\ pc = "verify"
    /\ final_qp' = best_qp
    /\ prev_file' = <<>>
    /\ workspaces' = workspaces \cup {"ssim_final"}
    /\ pc' = "loop"
    /\ UNCHANGED <<input_exists, ext, invoked, samples, best_qp, final_file,
                   staged, encLog, warned, dest, exc, exit_code, argVars,
                   searchVars, selVars>>

\* A loop that makes one more pass, below the floor.
LoopContinuesBelowFloor == final_qp >= min_qp - 1

\* line 85: while final_qp >= args.min_qp
LoopContinues == final_qp >= min_qp

\* A loop that leaves the rejected rendition in place.
AfterNoCleanup == staged

\* lines 87-88: the previous rendition is removed before the next encode.
AfterCleanup == staged \ {prev_file[i] : i \in 1..Len(prev_file)}

\* A loop that steps down by two would skip QPs.
NextQpSkipping(q) == q - 2

\* line 107: final_qp -= 1
NextQp(q) == q - 1

\* encoder.encode_final lines 24-26: the rendition's name embeds the QP, so
\* a rendition is identified by the QP it was encoded at.
Rendition(qp) == <<qp>>

\* lines 91-107: one pass of the loop; encode_final returned the score s.
LoopIteration ==
    /\ pc = "loop"
    /\ LoopContinues
    /\ \E s \in Scores :
          /\ encLog' = Append(encLog, [qp |-> final_qp, scored |-> TRUE, ssim |-> s])
          /\ IF MeetsTarget(s, target)
             THEN /\ final_file' = Rendition(final_qp)
                  /\ pc' = "move"
                  /\ UNCHANGED <<prev_file, final_qp>>
             ELSE /\ prev_file' = Rendition(final_qp)
                  /\ final_qp' = NextQp(final_qp)
                  /\ UNCHANGED <<final_file, pc>>
    /\ staged' = AfterCleanup \cup {final_qp}
    /\ invoked' = invoked \cup {"encode", "score"}
    /\ UNCHANGED <<input_exists, ext, workspaces, samples, best_qp, warned,
                   dest, exc, exit_code, argVars, searchVars, selVars>>

\* encode_final's ffmpeg encode fails (encoder.py lines 28-33).
LoopEncodeFails ==
    /\ pc = "loop"
    /\ LoopContinues
    /\ staged' = AfterCleanup
    /\ invoked' = invoked \cup {"encode"}
    /\ exc' = TRUE
    /\ pc' = "finally"
    /\ UNCHANGED <<input_exists, ext, workspaces, samples, best_qp, final_qp,
                   prev_file, final_file, encLog, warned, dest, exit_code,
                   argVars, searchVars, selVars>>

\* measure_full_ssim's ffmpeg fails after the encode (encoder.py line 35).
LoopScoreFails ==
    /\ pc = "loop"
    /\ LoopContinues
    /\ staged' = AfterCleanup \cup {final_qp}
    /\ encLog' = Append(encLog, [qp |-> final_qp, scored |-> FALSE, ssim |-> 0])
    /\ invoked' = invoked \cup {"encode", "score"}
    /\ exc' = TRUE
    /\ pc' = "finally"
    /\ UNCHANGED <<input_exists, ext, workspaces, samples, best_qp, final_qp,
                   prev_file, final_file, warned, dest, exit_code, argVars,
                   searchVars, selVars>>

\* lines 108-121, the while-else: the warning, then
\* final_file = prev_file or encode_final(qp=best_qp, return_ssim=False).
LoopElse ==
    /\ pc = "loop"
    /\ ~LoopContinues
    /\ warned' = TRUE
    /\ IF prev_file # <<>>
       THEN /\ final_file' = prev_file
            /\ UNCHANGED <<staged, encLog, invoked>>
       ELSE /\ final_file' = Rendition(best_qp)
            /\ staged' = staged \cup {best_qp}
            /\ encLog' = Append(encLog, [qp |-> best_qp, scored |-> FALSE, ssim |-> 0])
            /\ invoked' = invoked \cup {"encode"}
    /\ pc' = "move"
    /\ UNCHANGED <<input_exists, ext, workspaces, samples, best_qp, final_qp,
                   prev_file, dest, exc, exit_code, argVars, searchVars,
                   selVars>>

\* The fresh encode of the while-else fails.
LoopElseEncodeFails ==
    /\ pc = "loop"
    /\ ~LoopContinues
    /\ prev_file = <<>>
    /\ warned' = TRUE
    /\ invoked' = invoked \cup {"encode"}
    /\ exc' = TRUE
    /\ pc' = "finally"
    /\ UNCHANGED <<input_exists, ext, workspaces, samples, best_qp, final_qp,
                   prev_file, final_file, staged, encLog, dest, exit_code,
                   argVars, searchVars, selVars>>

\* lines 124-128: dest is named "<base> [h264_nvenc qp {final_qp}]<ext>".
DestName == final_qp

\* lines 124-130: shutil.move(final_file, dest) and the report.
Move ==
    /\ pc = "move"
    /\ dest' = <<[name_qp |-> DestName, enc_qp |-> final_file[1]]>>
    /\ staged' = staged \ {final_file[1]}
    /\ pc' = "finally"
    /\ UNCHANGED <<input_exists, ext, invoked, workspaces, samples, best_qp,
                   final_qp, prev_file, final_file, encLog, warned, exc,
                   exit_code, argVars, searchVars, selVars>>

\* line 134: what shutil.rmtree(tmpdir) removes.
Removed == {"ssim_final"}

\* lines 132-134: finally: shutil.rmtree(tmpdir); then main() returns, or
\* the exception goes on to end the process with status 1.
Finally ==
    /\ pc = "finally"
    /\ workspaces' = workspaces \ Removed
    /\ staged' = {}
    /\ pc' = "done"
    /\ exit_code' = IF exc THEN 1 ELSE 0
    /\ UNCHANGED <<input_exists, ext, invoked, samples, best_qp, final_qp,
                   prev_file, final_file, encLog, warned, dest, exc, argVars,
                   searchVars, selVars>>

Init ==
    /\ pc = "start"
    /\ input_exists \in BOOLEAN
    /\ ext \in Exts
    /\ min_qp \in QPs
    /\ max_qp \in QPs
    /\ target \in Targets
    /\ invoked = {}
    /\ workspaces = {}
    /\ samples = 0
    /\ best_qp = 0
    /\ final_qp = 0
    /\ prev_file = <<>>
    /\ final_file = <<>>
    /\ staged = {}
    /\ encLog = <<>>
    /\ warned = FALSE
    /\ dest = <<>>
    /\ exc = FALSE
    /\ exit_code = -1
    /\ SearchIdle
    /\ SelectIdle

Next ==
    \/ CheckInput
    \/ Probe
    \/ ProbeFails
    \/ ExtractSamples
    \/ ExtractProbeFails
    \/ ExtractDetectFails
    \/ ExtractCutFails
    \/ FindBestQp
    \/ FindBestQpFails
    \/ VerifyBegin
    \/ LoopIteration
    \/ LoopEncodeFails
    \/ LoopScoreFails
    \/ LoopElse
    \/ LoopElseEncodeFails
    \/ Move
    \/ Finally

Spec == Init /\ [][Next]_vars

-----------------------------------------------------------------------------
(* Properties of find_best_qp, checked under SpecSearch *)

\* The evaluator's score is non-increasing in QP over the search range.
Monotone ==
    \A p, q \in DOMAIN ssim : p <= q => ssim[p] >= ssim[q]

MeetingQPs == {q \in min_qp..max_qp : MeetsTarget(ssim[q], target)}

LargestOf(S) == CHOOSE q \in S : \A r \in S : r <= q

\* C1: for a monotone evaluator and a range min_qp <= max_qp in which some
\* QP meets the target, find_best_qp returns the largest QP of the range
\* whose score meets the target.
C1_ReturnsLargestMeetingQp ==
    (spc = "returned" /\ min_qp <= max_qp /\ Monotone /\ MeetingQPs # {})
        => best = LargestOf(MeetingQPs)

\* C2: upper-bound shortcut: whenever score(max_qp) meets the target,
\* find_best_qp returns max_qp, whatever the other scores are.
C2_UpperBoundShortcut ==
    (spc = "returned" /\ min_qp <= max_qp
        /\ MeetsTarget(measure_ssim(ssim, max_qp), target))
        => best = max_qp

\* C9: degenerate range: when min_qp = max_qp, find_best_qp returns that QP
\* and has not called the evaluator at all.
C9_DegenerateRangeNoEvaluation ==
    (spc = "returned" /\ min_qp = max_qp) => (best = min_qp /\ evals = <<>>)

RECURSIVE Pow2(_)
Pow2(k) == IF k = 0 THEN 1 ELSE 2 * Pow2(k - 1)

RECURSIVE CeilLog2From(_, _)
CeilLog2From(n, k) == IF Pow2(k) >= n THEN k ELSE CeilLog2From(n, k + 1)

\* ceil(log2(n)) for n >= 1: the least k with 2^k >= n.
CeilLog2(n) == CeilLog2From(n, 0)

\* C11: for min_qp < max_qp and any evaluator, find_best_qp terminates: it
\* can always go on until it has returned, and it makes one initial
\* evaluator call at max_qp plus at most ceil(log2(max_qp - min_qp)) calls
\* in the bisection loop.
C11_BoundedEvaluatorCalls ==
    min_qp < max_qp =>
        /\ spc # "returned" => ENABLED NextSearch
        /\ spc # "call" =>
              /\ evals[1] = max_qp
              /\ Len(evals) - 1 <= CeilLog2(max_qp - min_qp)

\* A returned search over a range of width 3 that used both loop calls.
C11_Witness ==
    /\ spc = "returned"
    /\ max_qp - min_qp = 3
    /\ Len(evals) - 1 = CeilLog2(max_qp - min_qp)

\* C14: SearchState invariant: at every point of an invocation after best
\* has been set, for any evaluator, low <= best <= high.
C14_BestWithinLowHigh ==
    (spc # "call" /\ min_qp <= max_qp) => (low <= best /\ best <= high)

-----------------------------------------------------------------------------
(* Properties of select_sample_times, checked under SpecSelect *)

\* The duration can host count non-overlapping segments of length clip_len.
CanHost(in) ==
    in.count * ClipLen(in.duration, in.percent, in.count)
        <= Seconds(in.duration, in.count)

\* C5: segment count invariant: in every mode, for every list the detector
\* may return, select_sample_times returns exactly count timestamps when the
\* duration can host count segments.
C5_ExactlyCountTimestamps ==
    (sel_pc = "returned" /\ CanHost(sel_in)) => Len(sel_out) = sel_in.count

EmptyDetection ==
    /\ sel_pc = "returned"
    /\ sel_in.mode \in {"scene", "motion"}
    /\ sel_in.detected = <<>>

\* C10: fallback equivalence: when the detector of mode scene or motion
\* returns an empty list, the result is, timestamp for timestamp, the result
\* of the call in mode uniform with the same duration, percent, count and
\* clip_len.
C10_EmptyDetectionEqualsUniform ==
    EmptyDetection
        => sel_out = SelectedTimes([sel_in EXCEPT !.mode = "uniform"])

\* An empty motion detection answered with several spaced timestamps.
C10_Witness ==
    /\ EmptyDetection
    /\ sel_in.mode = "motion"
    /\ sel_in.count > 1
    /\ Len(sel_out) = sel_in.count
    /\ sel_out[1] # sel_out[2]

-----------------------------------------------------------------------------
(* Properties of a run, checked under Spec *)

\* The whole-file score was measured below target at QP q.
MeasuredBelow(q) ==
    \E i \in 1..Len(encLog) :
        /\ encLog[i].qp = q
        /\ encLog[i].scored
        /\ ~MeetsTarget(encLog[i].ssim, target)

\* The run ended after the verification loop found every QP from the
\* sample search's QP down to min_qp below target.
TargetUnreachable ==
    /\ pc = "done"
    /\ ~exc
    /\ min_qp <= max_qp
    /\ MeasuredBelow(best_qp)
    /\ \A q \in min_qp..best_qp : MeasuredBelow(q)

\* C3: target-unreachable fallback: the QP reported and the rendition
\* delivered are those of starting_qp, the QP the sample search returned.
C3_FallbackDeliversStartingQp ==
    TargetUnreachable
        => dest = <<[name_qp |-> best_qp, enc_qp |-> best_qp]>>

\* The loop was left by its break: a QP has been accepted.
Accepted ==
    /\ pc \in {"move", "finally", "done"}
    /\ final_file # <<>>
    /\ ~warned

\* C4: the loop encodes the whole file at starting_qp, starting_qp - 1, ...
\* in that order, every encode before the accepted one scored below target,
\* the accepted QP is the largest QP in [min_qp, starting_qp] whose
\* whole-file score meets the target, and the accepted encode is the last.
C4_FirstMeetingQpAccepted ==
    /\ \A i \in 1..Len(encLog) : encLog[i].qp = best_qp - (i - 1)
    /\ Accepted =>
          LET n == Len(encLog)
          IN  /\ n = best_qp - final_qp + 1
              /\ final_qp \in min_qp..best_qp
              /\ final_file = Rendition(final_qp)
              /\ encLog[n].scored
              /\ MeetsTarget(encLog[n].ssim, target)
              /\ \A q \in (final_qp + 1)..best_qp : MeasuredBelow(q)

\* A run that accepted a QP below the sample search's and delivered it.
C4_Witness ==
    /\ Accepted
    /\ pc = "done"
    /\ final_qp < best_qp
    /\ dest # <<>>

\* C6: when the run has ended, on any path, no temporary workspace is left.
C6_NoWorkspaceLeft == pc = "done" => workspaces = {}

\* C7: a missing input file or an unsupported container extension ends the
\* run before any external collaborator is invoked.
C7_BadInputInvokesNothing ==
    (~input_exists \/ ext \notin SupportedExts) => invoked = {}

\* C8: a run ended by a missing input file has a non-zero exit status; a run
\* ended by the target-unreachable fallback has logged the warning and exits
\* with status 0.
C8_ExitStatus ==
    pc = "done" =>
        /\ ~input_exists => exit_code # 0
        /\ TargetUnreachable => (warned /\ exit_code = 0)

\* Every whole-file score measured so far is below target.
NeverMet ==
    \A i \in 1..Len(encLog) :
        encLog[i].scored => ~MeetsTarget(encLog[i].ssim, target)

\* The while loop ran out: its else branch was entered.
LoopExhausted == warned /\ min_qp <= max_qp

\* C12: verifier termination: when the whole-file score never meets the
\* target, the loop can always go on until it ends, it ends after exactly
\* starting_qp - min_qp + 1 scored encodes, one per QP from starting_qp down
\* to min_qp, and the whole file is never encoded at a QP below min_qp.
C12_VerifierStopsAtFloor ==
    min_qp <= max_qp =>
        /\ \A i \in 1..Len(encLog) : encLog[i].qp >= min_qp
        /\ (pc = "loop" /\ NeverMet) =>
              /\ ENABLED Next
              /\ Len(encLog) = best_qp - final_qp
              /\ Len(encLog) <= best_qp - min_qp + 1
        /\ LoopExhausted =>
              /\ Len(encLog) = best_qp - min_qp + 1
              /\ \A i \in 1..Len(encLog) :
                    /\ encLog[i].scored
                    /\ encLog[i].qp = best_qp - (i - 1)
              /\ \A q \in min_qp..best_qp : MeasuredBelow(q)

\* A run that ended by the fallback after more than one whole-file encode.
C12_Witness ==
    /\ pc = "done"
    /\ LoopExhausted
    /\ ~exc
    /\ best_qp > min_qp
    /\ Len(encLog) = best_qp - min_qp + 1

\* C13: whenever an output artifact has been delivered, the QP in its name
\* is the QP the delivered file was encoded at.
C13_NameMatchesEncode ==
    dest # <<>> => dest[1].name_qp = dest[1].enc_qp

\* C16: at every point of the verification loop the staging workspace holds
\* at most one full-file rendition, and it is the latest encode: the rejected
\* one is gone once the next encode is there.
C16_AtMostOneRendition ==
    /\ Cardinality(staged) <= 1
    /\ \A q \in staged :
          /\ encLog # <<>>
          /\ q = encLog[Len(encLog)].qp

\* In the loop after two encodes: only the second rendition is staged.
C16_Witness ==
    /\ pc = "loop"
    /\ Len(encLog) = 2
    /\ prev_file # <<>>
    /\ staged = {prev_file[1]}
    /\ encLog[1].qp \notin staged

-----------------------------------------------------------------------------
(* The top-up of select_sample_times, checked under SpecSelect *)

NoRepeat(seq) ==
    \A i, j \in 1..Len(seq) : seq[i] = seq[j] => i = j

\* The candidates of the call and the timestamps the spacing filter kept.
CandidatesOf(in) ==
    Candidates(in.mode, in.duration, in.percent, in.count, in.detected)

KeptOf(in) ==
    SpacingFilter(CandidatesOf(in), 1, <<>>,
                  ClipLen(in.duration, in.percent, in.count), in.count)

\* The candidates that were not kept, in their original order.
NotKept(times, kept) ==
    LET unkept(t) == \A k \in 1..Len(kept) : kept[k] # t
    IN  SelectSeq(times, unkept)

\* C15: post-filter top-up: when fewer than count candidates survive the
\* spacing filter, the result is the kept timestamps followed by candidates
\* not already kept, in original order, until count is reached or the
\* candidates are exhausted; for distinct candidates no timestamp is
\* returned twice.
C15_TopUpWithoutRepeats ==
    sel_pc = "returned" =>
        LET times == CandidatesOf(sel_in)
            kept  == KeptOf(sel_in)
        IN  /\ Len(kept) < sel_in.count =>
                  sel_out = Take(kept \o NotKept(times, kept), sel_in.count)
            /\ NoRepeat(times) => NoRepeat(sel_out)

=============================================================================
